---- MODULE Spec2Model ----
(***************************************************************************)
(* Model of parse_KGML.py: KGML2Graph(xmlfile, filetype) reads a KGML      *)
(* pathway document, builds the table id -> (name, title, type) of the     *)
(* entries accepted by the pathway flavor, and an undirected simple graph  *)
(* whose nodes are entry labels and whose edges come from the relations.   *)
(*                                                                         *)
(* Strings that the code slices (graphical titles) are sequences of        *)
(* one-character strings; all other attribute values are TLA+ strings.     *)
(***************************************************************************)
EXTENDS Naturals, Sequences, FiniteSets

VARIABLES xmlfile, filetype, pc, tree, entriestype, graph, nodes, i, err

vars == <<xmlfile, filetype, pc, tree, entriestype, graph, nodes, i, err>>

(***************************************************************************)
(* Bounds of the explored inputs.                                          *)
(***************************************************************************)
\* elements (entry or relation) per document, specification Spec
MaxLen == 4
\* elements per document, specification SpecFlavor
MaxFlavorLen == 2
\* characters per graphical title, specification SpecNorm
MaxTitleLen == 6

SeqsUpTo(S, n) == UNION {[1..k -> S] : k \in 0..n}

\* entry ids and relation endpoints (attribute strings)
Ids == {"1", "2"}
\* KGML entry types
Kinds == {"gene", "compound", "map", "ortholog", "other"}
MainKinds == {"gene", "compound"}
Names == {"hsa:79796"}
RootTitles == {"Pathway X"}
\* graphical titles: 'ALG2...' and 'ALG8'
TitlePool == { <<"A", "L", "G", "2", ".", ".", ".">>, <<"A", "L", "G", "8">> }
Chars == {"A", "."}
\* values of the filetype argument: the tokens of the command line and one other
Filetypes == {"organism", "o", "ko", "k", "generic", "general", "hsa"}
MainFiletypes == {"organism", "ko"}

EntryElems(ids, kinds, titles) ==
    [tag : {"entry"}, id : ids, type : kinds, name : Names, title : titles]

RelationElems(ids) ==
    [tag : {"relation"}, entry1 : ids, entry2 : ids]

Documents(elems, n) == [title : RootTitles, elems : SeqsUpTo(elems, n)]

(***************************************************************************)
(* Pure helpers of KGML2Graph.                                             *)
(***************************************************************************)
IsEntry(el) == el.tag = "entry"
IsRelation(el) == el.tag = "relation"

\* the entry elements that stand before the first relation element
EntryIterUntilRelation(t) ==
    SelectSeq(SubSeq(t, 1, Cardinality({k \in 1..Len(t) : \A j \in 1..k : IsEntry(t[j])})), IsEntry)

\* tree.getiterator('entry'): the entry elements, in document order
EntryIter(t) == SelectSeq(t, IsEntry)
\* tree.getiterator('relation'): the relation elements, in document order
RelationIter(t) == SelectSeq(t, IsRelation)

\* one tuple of accepted types whatever the filetype
EntriesTypeAll(ft) == {"gene", "ortholog", "map", "compound"}

\* the tuple of accepted entry types for a filetype
EntriesType(ft) ==
    IF ft \in {"organism", "o"}
    THEN {"gene", "compound", "map"}
    ELSE {"ortholog", "map", "compound"}

\* title[-3:]
Last3(t) == SubSeq(t, IF Len(t) > 3 THEN Len(t) - 2 ELSE 1, Len(t))
\* title[:-3]
DropLast3(t) == SubSeq(t, 1, IF Len(t) > 3 THEN Len(t) - 3 ELSE 0)

\* strips only when something is left before the '...'
NormalizeLongOnly(t) ==
    IF Last3(t) = <<".", ".", ".">> /\ Len(t) > 3 THEN DropLast3(t) ELSE t
\* strips three characters as soon as the title ends with one '.'
NormalizeAnyDot(t) ==
    IF Len(t) > 0 /\ t[Len(t)] = "." THEN DropLast3(t) ELSE t

\* if title[-3:] == '...': title = title[:-3]
Normalize(t) == IF Last3(t) = <<".", ".", ".">> THEN DropLast3(t) ELSE t

\* nodes[id] = value
DictSet(d, k, v) == [x \in (DOMAIN d) \cup {k} |-> IF x = k THEN v ELSE d[x]]

\* networkx.Graph.add_node
AddNode(g, n) == [g EXCEPT !.node = @ \cup {n}]
\* an add_edge that ignores self-loops
AddEdgeNoLoop(g, u, v) ==
    IF u = v THEN [g EXCEPT !.node = @ \cup {u}]
    ELSE [g EXCEPT !.node = @ \cup {u, v}, !.edge = @ \cup {{u, v}}]
\* networkx.Graph.add_edge: both endpoints become nodes, the edge is unordered
AddEdge(g, u, v) == [g EXCEPT !.node = @ \cup {u, v}, !.edge = @ \cup {{u, v}}]

\* every accepted entry is added as a node
IsRegisteredAny(type) == TRUE
\* line 74: only entries of type 'gene' are added as nodes by the entries loop
IsRegistered(type) == type = "gene"

EmptyDict == [x \in {} |-> <<>>]
NoGraph == [node |-> {}, edge |-> {}, title |-> ""]

(***************************************************************************)
(* Initial states: a call KGML2Graph(xmlfile, filetype) about to start.    *)
(***************************************************************************)
InitCall(docs, fts) ==
    /\ xmlfile \in docs
    /\ filetype \in fts
    /\ pc = "start"
    /\ tree = <<>>
    /\ entriestype = {}
    /\ graph = NoGraph
    /\ nodes = EmptyDict
    /\ i = 1
    /\ err = "none"

Init == InitCall(Documents(EntryElems(Ids, MainKinds, TitlePool) \cup RelationElems(Ids), MaxLen),
                 MainFiletypes)

(***************************************************************************)
(* Steps of KGML2Graph.                                                    *)
(***************************************************************************)
\* lines 40-53: create the graph and the table, parse, pick the accepted
\* types, store the pathway title
Begin ==
    /\ pc = "start"
    /\ tree' = xmlfile.elems
    /\ entriestype' = EntriesType(filetype)
    /\ graph' = [node |-> {}, edge |-> {}, title |-> xmlfile.title]
    /\ nodes' = EmptyDict
    /\ i' = 1
    /\ pc' = "entries"
    /\ UNCHANGED <<xmlfile, filetype, err>>

\* lines 56-75: one iteration of the entries loop
EntryStep ==
    /\ pc = "entries"
    /\ i <= Len(EntryIter(tree))
    /\ LET el == EntryIter(tree)[i]
           title == Normalize(el.title)
       IN IF el.type \in entriestype
          THEN /\ nodes' = DictSet(nodes, el.id, <<el.name, title, el.type>>)
               /\ graph' = IF IsRegistered(el.type) THEN AddNode(graph, title) ELSE graph
          ELSE UNCHANGED <<nodes, graph>>
    /\ i' = i + 1
    /\ UNCHANGED <<xmlfile, filetype, pc, tree, entriestype, err>>

\* the entries loop is exhausted: go on to the relations loop (line 79)
EntriesDone ==
    /\ pc = "entries"
    /\ i > Len(EntryIter(tree))
    /\ pc' = "relations"
    /\ i' = 1
    /\ UNCHANGED <<xmlfile, filetype, tree, entriestype, graph, nodes, err>>

\* lines 79-90: one iteration of the relations loop, both lookups succeed
RelationStep ==
    /\ pc = "relations"
    /\ i <= Len(RelationIter(tree))
    /\ LET rel == RelationIter(tree)[i]
           e1 == rel.entry1
           e2 == rel.entry2
       IN /\ e1 \in DOMAIN nodes
          /\ e2 \in DOMAIN nodes
          /\ graph' = AddEdge(graph, nodes[e1][2], nodes[e2][2])
    /\ i' = i + 1
    /\ UNCHANGED <<xmlfile, filetype, pc, tree, entriestype, nodes, err>>

\* line 90: nodes[e1] or nodes[e2] raises KeyError, which leaves the function
RelationFail ==
    /\ pc = "relations"
    /\ i <= Len(RelationIter(tree))
    /\ LET rel == RelationIter(tree)[i]
       IN rel.entry1 \notin DOMAIN nodes \/ rel.entry2 \notin DOMAIN nodes
    /\ pc' = "failed"
    /\ err' = "KeyError"
    /\ UNCHANGED <<xmlfile, filetype, tree, entriestype, graph, nodes, i>>

\* line 92: return tree, graph, nodes, genes, reactions
Return ==
    /\ pc = "relations"
    /\ i > Len(RelationIter(tree))
    /\ pc' = "done"
    /\ UNCHANGED <<xmlfile, filetype, tree, entriestype, graph, nodes, i, err>>

Next ==
    \/ Begin
    \/ EntryStep
    \/ EntriesDone
    \/ RelationStep
    \/ RelationFail
    \/ Return

Spec == Init /\ [][Next]_vars

\* every filetype token and every entry type, short documents
InitFlavor == InitCall(Documents(EntryElems(Ids, Kinds, TitlePool) \cup RelationElems(Ids), MaxFlavorLen),
                       Filetypes)

SpecFlavor == InitFlavor /\ [][Next]_vars

\* one entry with any title over Chars up to MaxTitleLen, followed by one relation
NormDocuments ==
    [title : RootTitles,
     elems : {<<e, r>> : e \in EntryElems({"1"}, MainKinds, SeqsUpTo(Chars, MaxTitleLen)),
                         r \in RelationElems(Ids)}]

InitNorm == InitCall(NormDocuments, MainFiletypes)

SpecNorm == InitNorm /\ [][Next]_vars

(***************************************************************************)
(* Vocabulary of the properties, read off the document itself.             *)
(***************************************************************************)
Doc == xmlfile.elems
EntryIdx == {k \in 1..Len(Doc) : Doc[k].tag = "entry"}
RelationIdx == {k \in 1..Len(Doc) : Doc[k].tag = "relation"}
\* position of element k among the elements of S, in document order
Rank(k, S) == Cardinality({j \in S : j <= k})
MaxOf(S) == CHOOSE m \in S : \A x \in S : x <= m

\* the entry elements the entries loop has gone through
ProcessedEntries ==
    IF pc = "start" THEN {}
    ELSE IF pc = "entries" THEN {k \in EntryIdx : Rank(k, EntryIdx) < i}
    ELSE EntryIdx
\* the relation elements the relations loop has turned into edges
ProcessedRelations ==
    IF pc \in {"relations", "done", "failed"}
    THEN {k \in RelationIdx : Rank(k, RelationIdx) < i}
    ELSE {}
EntriesPassOver == pc \in {"relations", "done", "failed"}

EndsWithEllipsis(t) == Len(t) >= 3 /\ \A k \in 0..2 : t[Len(t) - k] = "."
\* the title without its last three characters when it ends with '...'
ExpectedLabel(t) == IF EndsWithEllipsis(t) THEN [k \in 1..(Len(t) - 3) |-> t[k]] ELSE t

\* accepted entries (of the active flavor) among a set of entry positions
AcceptedIn(S) == {k \in S : Doc[k].type \in entriestype}
AcceptedWithId(S, id) == {k \in AcceptedIn(S) : Doc[k].id = id}
\* the label an id stands for: that of the last accepted entry carrying it
LabelOf(S, id) == ExpectedLabel(Doc[MaxOf(AcceptedWithId(S, id))].title)
Resolved(S, k) ==
    /\ AcceptedWithId(S, Doc[k].entry1) # {}
    /\ AcceptedWithId(S, Doc[k].entry2) # {}
PairOf(S, k) == {LabelOf(S, Doc[k].entry1), LabelOf(S, Doc[k].entry2)}

GeneLabels == {ExpectedLabel(Doc[k].title) : k \in {j \in AcceptedIn(EntryIdx) : Doc[j].type = "gene"}}
Endpoints == UNION graph.edge
DescriptorLabels == {nodes[id][2] : id \in DOMAIN nodes}

OrganismTokens == {"organism", "o"}
GenericTokens == {"ko", "k", "generic", "general"}
\* the accepted kinds of the two modes, as the specification lists them
ModeKinds ==
    IF filetype \in OrganismTokens THEN {"gene", "compound", "map"}
    ELSE {"ortholog", "map", "compound"}

(***************************************************************************)
(* C1                                                                      *)
(***************************************************************************)
\* C1 (as stated): on return the node set is exactly the labels of the accepted
\* gene entries together with the endpoints of the edges, and the label of an
\* accepted compound/map/ortholog entry is a node only if it is an endpoint.
C1_Original ==
    pc = "done" =>
        /\ graph.node = GeneLabels \cup Endpoints
        /\ \A k \in AcceptedIn(EntryIdx) :
              (Doc[k].type # "gene" /\ ExpectedLabel(Doc[k].title) \in graph.node)
                  => ExpectedLabel(Doc[k].title) \in Endpoints

\* C1 (amended): on return the node set is exactly the labels of the accepted
\* gene entries together with the endpoints of the edges; the label of an
\* accepted non-gene entry is a node only if it is an endpoint of an edge or is
\* also the label of an accepted gene entry.
C1_NodeSet ==
    pc = "done" =>
        /\ graph.node = GeneLabels \cup Endpoints
        /\ \A k \in AcceptedIn(EntryIdx) :
              (Doc[k].type # "gene" /\ ExpectedLabel(Doc[k].title) \in graph.node)
                  => ExpectedLabel(Doc[k].title) \in Endpoints \cup GeneLabels

\* a returned graph with a gene node that is no endpoint and a compound node
\* that is there only as an endpoint
C1_Witness ==
    /\ pc = "done"
    /\ \E n \in GeneLabels : n \notin Endpoints
    /\ \E k \in AcceptedIn(EntryIdx) :
          Doc[k].type = "compound" /\ ExpectedLabel(Doc[k].title) \in Endpoints \ GeneLabels

(***************************************************************************)
(* C2                                                                      *)
(***************************************************************************)
\* C2: on return the edge set is exactly the set of unordered label pairs of
\* the document's relations (so equal pairs, in either order, give one edge and
\* a relation naming one entry twice gives a self-loop), and there are never
\* more edges than relations.
C2_EdgeSet ==
    /\ pc = "done" =>
          /\ \A k \in RelationIdx : Resolved(EntryIdx, k)
          /\ graph.edge = {PairOf(EntryIdx, k) : k \in RelationIdx}
    /\ Cardinality(graph.edge) <= Cardinality(RelationIdx)

\* two relations joining two different labels in opposite endpoint orders have
\* produced a single edge
C2_Witness ==
    /\ pc = "done"
    /\ \E j, k \in RelationIdx :
          /\ j < k
          /\ Doc[j].entry1 = Doc[k].entry2
          /\ Doc[j].entry2 = Doc[k].entry1
          /\ Cardinality(PairOf(EntryIdx, j)) = 2
    /\ Cardinality(graph.edge) = 1

(***************************************************************************)
(* C3                                                                      *)
(***************************************************************************)
\* C3: a relation endpoint without a descriptor ends the conversion in the
\* distinct error UnresolvedRelationEndpoint.
C3_DistinctError == pc = "failed" => err = "UnresolvedRelationEndpoint"

(***************************************************************************)
(* C4                                                                      *)
(***************************************************************************)
\* C4: for a filetype outside {organism, o, ko, k, generic, general} the
\* conversion aborts: it never returns a graph and a descriptor table.
C4_UnsupportedFlavor ==
    filetype \notin OrganismTokens \cup GenericTokens => pc # "done"

(***************************************************************************)
(* C5                                                                      *)
(***************************************************************************)
\* C5: for a recognized filetype, the descriptor table holds exactly the ids
\* of the entries gone through whose kind is accepted by the mode (organism:
\* gene, compound, map; generic: ortholog, map, compound), and until the first
\* relation is handled the nodes are exactly the labels of the accepted gene
\* entries gone through: no entry of another kind is registered.
C5_AcceptedKinds ==
    filetype \in OrganismTokens \cup GenericTokens =>
        /\ DOMAIN nodes = {Doc[k].id : k \in {j \in ProcessedEntries : Doc[j].type \in ModeKinds}}
        /\ (pc = "entries" \/ (pc = "relations" /\ i = 1)) =>
              graph.node = {ExpectedLabel(Doc[k].title) :
                               k \in {j \in ProcessedEntries :
                                         Doc[j].type \in ModeKinds /\ Doc[j].type = "gene"}}

\* the entries pass is over in generic mode on a document with a gene entry
\* (skipped) and an ortholog entry (kept)
C5_Witness ==
    /\ EntriesPassOver
    /\ filetype \in GenericTokens
    /\ \E k \in EntryIdx : Doc[k].type = "gene" /\ Doc[k].id \notin DOMAIN nodes
    /\ \E k \in EntryIdx : Doc[k].type = "ortholog" /\ Doc[k].id \in DOMAIN nodes

(***************************************************************************)
(* C6                                                                      *)
(***************************************************************************)
\* C6: the label stored in a descriptor is the title of the (last) accepted
\* entry with that id, without its last three characters when the title ends
\* with '...', and verbatim otherwise.
C6_Label ==
    \A id \in DOMAIN nodes :
        /\ AcceptedWithId(ProcessedEntries, id) # {}
        /\ nodes[id][2] = LabelOf(ProcessedEntries, id)

\* the title '...' itself has been stored as the empty label
C6_Witness ==
    /\ "1" \in DOMAIN nodes
    /\ Doc[1].title = <<".", ".", ".">>
    /\ nodes["1"][2] = <<>>

(***************************************************************************)
(* C7                                                                      *)
(***************************************************************************)
\* C7 (as stated): normalizing a stored label returns it unchanged, and a
\* title not ending in '...' is stored unchanged.
C7_Original ==
    \A id \in DOMAIN nodes :
        /\ Normalize(nodes[id][2]) = nodes[id][2]
        /\ ~EndsWithEllipsis(Doc[MaxOf(AcceptedWithId(ProcessedEntries, id))].title)
              => nodes[id][2] = Doc[MaxOf(AcceptedWithId(ProcessedEntries, id))].title

\* C7 (amended): normalizing a stored label returns it unchanged unless the
\* label itself still ends in '...' (the title ended in '......'), and a title
\* not ending in '...' is stored unchanged.
C7_IdempotentOnce ==
    \A id \in DOMAIN nodes :
        /\ ~EndsWithEllipsis(nodes[id][2]) => Normalize(nodes[id][2]) = nodes[id][2]
        /\ ~EndsWithEllipsis(Doc[MaxOf(AcceptedWithId(ProcessedEntries, id))].title)
              => nodes[id][2] = Doc[MaxOf(AcceptedWithId(ProcessedEntries, id))].title

\* a title ending in '...' has been stored as a shorter label that a second
\* normalization leaves alone
C7_Witness ==
    /\ "1" \in DOMAIN nodes
    /\ EndsWithEllipsis(Doc[1].title)
    /\ Len(nodes["1"][2]) = Len(Doc[1].title) - 3
    /\ Len(nodes["1"][2]) > 0
    /\ Normalize(nodes["1"][2]) = nodes["1"][2]

(***************************************************************************)
(* C8                                                                      *)
(***************************************************************************)
\* C8: once two accepted entries with the same id have been gone through, the
\* conversion has reported DuplicateEntryId.
C8_DuplicateReported ==
    (\E j, k \in AcceptedIn(ProcessedEntries) : j < k /\ Doc[j].id = Doc[k].id)
        => err = "DuplicateEntryId"

(***************************************************************************)
(* C9                                                                      *)
(***************************************************************************)
\* C9: no edge exists while entries are still being classified; throughout
\* the relations pass the table is the one of all the document's entries and
\* the title is the document's; every relation handled so far, wherever it
\* stands among the entries in the document, was resolved through that table.
C9_TwoPasses ==
    /\ pc \in {"start", "entries"} => graph.edge = {}
    /\ EntriesPassOver =>
          /\ DOMAIN nodes = {Doc[k].id : k \in AcceptedIn(EntryIdx)}
          /\ \A id \in DOMAIN nodes : nodes[id][2] = LabelOf(EntryIdx, id)
          /\ graph.title = xmlfile.title
          /\ \A k \in ProcessedRelations : Resolved(EntryIdx, k)
          /\ graph.edge = {PairOf(EntryIdx, k) : k \in ProcessedRelations}
    /\ pc = "failed" =>
          \E k \in RelationIdx : Rank(k, RelationIdx) = i /\ ~Resolved(EntryIdx, k)

\* a relation that stands before both of its entries in the document has
\* become an edge
C9_Witness ==
    /\ pc = "done"
    /\ graph.edge # {}
    /\ \E k \in RelationIdx :
          /\ \A j \in EntryIdx : k < j
          /\ Doc[k].entry1 # Doc[k].entry2

(***************************************************************************)
(* C10                                                                     *)
(***************************************************************************)
\* C10: on return every node of the graph is the label of some descriptor of
\* the table.
C10_NodesHaveDescriptors == pc = "done" => graph.node \subseteq DescriptorLabels

====
